---- MODULE Spec2Model ----
(***************************************************************************)
(* A model of mellium.im/xml: the pull Tokenizer (tokenizer.go) and the    *)
(* Split framing function (split.go).                                      *)
(*                                                                         *)
(* A byte is a one-character string, a Go string or []byte is a sequence   *)
(* of bytes, the empty string and the nil slice are both <<>>.             *)
(***************************************************************************)
EXTENDS Integers, Sequences, FiniteSets, TLC

VARIABLES
    r,          \* Tokenizer.r: the reader, [buf: the unread bytes, end: the error it reports when exhausted]
    foundStart, \* Tokenizer.foundStart
    selfClose,  \* Tokenizer.selfClose: <<>> for nil, <<name>> for a pointer to name
    prefixes,   \* Tokenizer.prefixes: a sequence of maps prefix -> URI
    spaces,     \* Tokenizer.spaces: a sequence of default namespaces
    tok,        \* the Token value returned by the last Token() call
    err,        \* the error returned by the last Token() call
    consumed,   \* the bytes the last Token() call read from the reader
    called,     \* whether Token() has been called
    pre,        \* the Tokenizer, and the last results, as they were when the last call began
    open,       \* the elements the returned token stream has started and not yet ended
    ntok,       \* the number of calls that returned a token before the first error
    failed,     \* whether a Token() call has returned an error
    data,       \* Split: the unconsumed input handed to Split
    atEOF,      \* Split: the atEOF argument
    advance,    \* Split: the advance returned by the last call
    token,      \* Split: the token returned by the last call
    serr,       \* Split: the error returned by the last call
    sdata,      \* Split: the data argument of the last call; <<"none">> before the first
    input,      \* the whole input of the reader a scanner, or a counted Tokenizer, reads
    rest,       \* scanner: the bytes of input the scanner has not read yet
    toks        \* scanner: the tokens Split has returned to the scanner, in order

tvars == <<r, foundStart, selfClose, prefixes, spaces, tok, err, consumed, called, pre, open,
          ntok, failed>>
svars == <<data, atEOF, advance, token, serr, sdata>>
scanvars == <<input, rest, toks>>
vars == <<tvars, svars, scanvars>>

(***************************************************************************)
(* Bounds of the model.                                                    *)
(***************************************************************************)
MaxLen == 4

(***************************************************************************)
(* Bytes, strings, errors, token values.                                   *)
(***************************************************************************)
NUL == "NUL"

Str5(a, b, c, d, e) == <<a, b, c, d, e>>

xmlns == Str5("x", "m", "l", "n", "s")

NilErr == <<>>

EOF == <<"io.EOF">>

ErrReader == <<"reader error">>

errEarlyEOF == <<"SyntaxError", "early EOF">>

ErrBadBang == <<"SyntaxError", "invalid sequence <!- not part of <!--">>

ErrExpectedGT(sep) == <<"errorString", "xml: expected > to end the element, got", sep>>

ErrBadAttrSep(sep) == <<"errorString", "xml: bad attribute separator", sep>>

ErrExpectedQuote == <<"errorString", "xml: expected quoted attribute value">>

ErrNoTarget == <<"SyntaxError", "xml: expected target name after <?">>

MkName(space, local) == [Space |-> space, Local |-> local]

ZeroName == MkName(<<>>, <<>>)

NilTok == [kind |-> "nil"]

StartElementTok(name, attr) == [kind |-> "StartElement", Name |-> name, Attr |-> attr]

EndElementTok(name) == [kind |-> "EndElement", Name |-> name]

CharDataTok(buf) == [kind |-> "CharData", Data |-> buf]

CommentTok(buf) == [kind |-> "Comment", Data |-> buf]

DirectiveTok(buf) == [kind |-> "Directive", Data |-> buf]

ProcInstTok(target, inst) == [kind |-> "ProcInst", Target |-> target, Inst |-> inst]

MkAttr(name, value) == [Name |-> name, Value |-> value]

\* A Go map read: a missing key reads as the empty string.
MapGet(m, k) == IF k \in DOMAIN m THEN m[k] ELSE <<>>

MapPut(m, k, v) == [x \in (DOMAIN m) \cup {k} |-> IF x = k THEN v ELSE m[x]]

EmptyMap == [x \in {} |-> <<>>]

Front(s) == SubSeq(s, 1, Len(s) - 1)

Last(s) == s[Len(s)]

(***************************************************************************)
(* The reader.                                                             *)
(***************************************************************************)
ReadByte(rd) ==
    IF rd.buf = <<>>
    THEN [b |-> NUL, err |-> rd.end, r |-> rd]
    ELSE [b |-> Head(rd.buf), err |-> NilErr, r |-> [rd EXCEPT !.buf = Tail(@)]]

isSpace(b) == b \in {" ", "\t", "\r", "\n"}

Letters ==
    {"a", "b", "c", "d", "e", "f", "g", "h", "i", "j", "k", "l", "m",
     "n", "o", "p", "q", "r", "s", "t", "u", "v", "w", "x", "y", "z",
     "A", "B", "C", "D", "E", "F", "G", "H", "I", "J", "K", "L", "M",
     "N", "O", "P", "Q", "R", "S", "T", "U", "V", "W", "X", "Y", "Z"}

Digits == {"0", "1", "2", "3", "4", "5", "6", "7", "8", "9"}

\* The colon is a name byte: decodeName tests for it only after this test.
isNameByte(b) == b \in Letters \cup Digits \cup {"_", ":", ".", "-"}

(***************************************************************************)
(* decodeName                                                              *)
(***************************************************************************)
\* The Tokenizer after a ReadByte that returned rb.
WithR(t, rb) == [t EXCEPT !.r = rb.r]

\* The nearest non-empty default namespace, from spaces[i] down.
RECURSIVE defaultSpace(_, _)
defaultSpace(sp, i) ==
    IF i < 1 THEN <<>>
    ELSE IF sp[i] # <<>> THEN sp[i]
    ELSE defaultSpace(sp, i - 1)

\* The walk of resolvePrefix, with the empty string when there is no mapping.
resolvePrefixOrEmpty(pfx, space, i) ==
    IF \A j \in 1..i : MapGet(pfx[j], space) = <<>> THEN <<>>
    ELSE MapGet(pfx[CHOOSE j \in 1..i : /\ MapGet(pfx[j], space) # <<>>
                                        /\ \A k \in (j + 1)..i : MapGet(pfx[k], space) = <<>>],
                space)

\* The nearest non-empty mapping of the prefix space, from prefixes[i] down;
\* the prefix itself when there is none.
RECURSIVE resolvePrefix(_, _, _)
resolvePrefix(pfx, space, i) ==
    IF i < 1 THEN space
    ELSE IF MapGet(pfx[i], space) # <<>> THEN MapGet(pfx[i], space)
    ELSE resolvePrefix(pfx, space, i - 1)

nameResult(t, name, sep, def, e) == [t |-> t, name |-> name, sep |-> sep, def |-> def, err |-> e]

RECURSIVE nameLoop(_, _, _, _, _)
nameStep(rb, t, space, foundSep, rawFirst, rawSecond) ==
    IF rb.err # NilErr
    THEN nameResult(WithR(t, rb), ZeroName, NUL, FALSE, rb.err)
    ELSE IF ~isNameByte(rb.b)
    THEN IF foundSep
         THEN nameResult(WithR(t, rb),
                         MkName(resolvePrefix(t.prefixes, rawFirst, Len(t.prefixes)), rawSecond),
                         rb.b, FALSE, NilErr)
         ELSE nameResult(WithR(t, rb), MkName(space, rawFirst), rb.b, space # <<>>, NilErr)
    ELSE IF rb.b = ":"
    THEN nameLoop(WithR(t, rb), space, TRUE, rawFirst, rawSecond)
    ELSE IF foundSep
    THEN nameLoop(WithR(t, rb), space, foundSep, rawFirst, Append(rawSecond, rb.b))
    ELSE nameLoop(WithR(t, rb), space, foundSep, Append(rawFirst, rb.b), rawSecond)

nameLoop(t, space, foundSep, rawFirst, rawSecond) ==
    nameStep(ReadByte(t.r), t, space, foundSep, rawFirst, rawSecond)

decodeName(t, b, attr) ==
    nameLoop(t,
             IF attr THEN <<>> ELSE defaultSpace(t.spaces, Len(t.spaces)),
             FALSE,
             IF b # NUL THEN <<b>> ELSE <<>>,
             <<>>)

(***************************************************************************)
(* decodeAttr                                                              *)
(***************************************************************************)
attrResult(t, a, e) == [t |-> t, attr |-> a, err |-> e]

ZeroAttr == MkAttr(ZeroName, <<>>)

RECURSIVE attrValueLoop(_, _, _, _)
attrValueStep(rb, t, name, quote, raw) ==
    IF rb.err # NilErr
    THEN attrResult(WithR(t, rb), ZeroAttr, rb.err)
    ELSE IF rb.b = quote
    THEN attrResult(WithR(t, rb), MkAttr(name, raw), NilErr)
    ELSE attrValueLoop(WithR(t, rb), name, quote, Append(raw, rb.b))

attrValueLoop(t, name, quote, raw) == attrValueStep(ReadByte(t.r), t, name, quote, raw)

\* The byte after '=' must open a quoted value.
attrQuote(rb, n) ==
    IF rb.err # NilErr
    THEN attrResult(WithR(n.t, rb), ZeroAttr, rb.err)
    ELSE IF rb.b # "'" /\ rb.b # "\""
    THEN attrResult(WithR(n.t, rb), ZeroAttr, ErrExpectedQuote)
    ELSE attrValueLoop(WithR(n.t, rb), n.name, rb.b, <<>>)

attrAfterName(n) ==
    IF n.err # NilErr
    THEN attrResult(n.t, ZeroAttr, n.err)
    ELSE IF n.sep # "="
    THEN attrResult(n.t, ZeroAttr, ErrBadAttrSep(n.sep))
    ELSE attrQuote(ReadByte(n.t.r), n)

decodeAttr(t, b) == attrAfterName(decodeName(t, b, TRUE))

(***************************************************************************)
(* decodeStartElement                                                      *)
(***************************************************************************)
result(t, k, e) == [t |-> t, tok |-> k, err |-> e]

ZeroStartElement == StartElementTok(ZeroName, <<>>)

\* The namespace bookkeeping made after an attribute is decoded: the switch
\* that ends the loop body. st is [t, name, def].
applyXmlns(st, a) ==
    IF a.Name.Space = <<>> /\ a.Name.Local = xmlns
    THEN [t |-> [st.t EXCEPT !.spaces[Len(st.t.spaces)] = a.Value],
          name |-> [st.name EXCEPT !.Space = a.Value],
          def |-> TRUE]
    ELSE IF a.Name.Space = xmlns
    THEN [t |-> [st.t EXCEPT !.prefixes[Len(st.t.prefixes)] = MapPut(@, a.Name.Local, a.Value)],
          name |-> IF ~st.def /\ st.name.Space # <<>> /\ st.name.Space = a.Name.Local
                   THEN [st.name EXCEPT !.Space = a.Value]
                   ELSE st.name,
          def |-> st.def]
    ELSE st

\* setSelfClose with the store forgotten.
setSelfCloseDropped(t, name) == t

\* case '/': the pending name is stored before the next byte is examined.
setSelfClose(t, name) == [t EXCEPT !.selfClose = <<name>>]

appendAttr(attr, a) == IF a.Name.Local # <<>> THEN Append(attr, a) ELSE attr

RECURSIVE startLoop(_, _, _, _, _)
\* case 0x20, 0x9, 0xD, 0xA: rb is the byte read after the space.
startSpace(rb, t, name, def, attr) ==
    IF rb.err # NilErr
    THEN result(WithR(t, rb), ZeroStartElement, rb.err)
    ELSE startLoop(WithR(t, rb), name, def, attr, rb.b)

\* case '/': rb is the byte read after the '/', t already holds selfClose.
startSlash(rb, t, name, attr) ==
    IF rb.err # NilErr
    THEN result(WithR(t, rb), ZeroStartElement, rb.err)
    ELSE IF rb.b # ">"
    THEN result(WithR(t, rb), ZeroStartElement, ErrExpectedGT(rb.b))
    ELSE result(WithR(t, rb), StartElementTok(name, attr), NilErr)

startNext(st, attr, sep) == startLoop(st.t, st.name, st.def, attr, sep)

\* rb is the byte read after the attribute a.
startAfterAttr(rb, a, name, def, attr) ==
    IF rb.err # NilErr
    THEN result(WithR(a.t, rb), ZeroStartElement, rb.err)
    ELSE startNext(applyXmlns([t |-> WithR(a.t, rb), name |-> name, def |-> def], a.attr),
                   appendAttr(attr, a.attr), rb.b)

startAttr(a, name, def, attr) ==
    IF a.err # NilErr
    THEN result(a.t, ZeroStartElement, a.err)
    ELSE startAfterAttr(ReadByte(a.t.r), a, name, def, attr)

startLoop(t, name, def, attr, sep) ==
    IF isSpace(sep) THEN startSpace(ReadByte(t.r), t, name, def, attr)
    ELSE IF sep = "/" THEN startSlash(ReadByte(t.r), setSelfClose(t, name), name, attr)
    ELSE IF sep = ">" THEN result(t, StartElementTok(name, attr), NilErr)
    ELSE startAttr(decodeAttr(t, sep), name, def, attr)

pushStacks(t) ==
    [t EXCEPT !.spaces = Append(@, <<>>), !.prefixes = Append(@, EmptyMap)]

startAfterName(n) ==
    IF n.err # NilErr
    THEN result(n.t, ZeroStartElement, n.err)
    ELSE startLoop(n.t, n.name, n.def, <<>>, n.sep)

decodeStartElement(t, b) == startAfterName(decodeName(pushStacks(t), b, FALSE))

(***************************************************************************)
(* decodeEndElement                                                        *)
(***************************************************************************)
\* The deferred function: it runs on every return.
popStacks(t) ==
    [t EXCEPT !.prefixes = IF Len(@) > 0 THEN Front(@) ELSE @,
              !.spaces = IF Len(@) > 0 THEN Front(@) ELSE @]

endAfterName(n) ==
    IF n.err # NilErr
    THEN result(popStacks(n.t), EndElementTok(ZeroName), n.err)
    ELSE result(popStacks(n.t), EndElementTok(n.name), NilErr)

decodeEndElement(t) == endAfterName(decodeName(t, NUL, FALSE))

(***************************************************************************)
(* decodeDirective, decodeComment, decodeProcInst, decodeCharData          *)
(***************************************************************************)
RECURSIVE decodeDirective(_, _)
directiveStep(rb, t, dir) ==
    IF rb.err # NilErr
    THEN result(WithR(t, rb), DirectiveTok(<<>>), rb.err)
    ELSE IF rb.b = ">"
    THEN result(WithR(t, rb), DirectiveTok(dir), NilErr)
    ELSE decodeDirective(WithR(t, rb), Append(dir, rb.b))

decodeDirective(t, dir) == directiveStep(ReadByte(t.r), t, dir)

Dashes(n) == [i \in 1..n |-> "-"]

RECURSIVE commentLoop(_, _, _)
\* found is a uint8.
commentStep(rb, t, comment, found) ==
    IF rb.err # NilErr
    THEN result(WithR(t, rb), CommentTok(<<>>), rb.err)
    ELSE IF rb.b = "-"
    THEN commentLoop(WithR(t, rb), comment, (found + 1) % 256)
    ELSE IF rb.b = ">" /\ found > 1
    THEN result(WithR(t, rb), CommentTok(comment), NilErr)
    ELSE commentLoop(WithR(t, rb), Append(comment \o Dashes(found), rb.b), 0)

commentLoop(t, comment, found) == commentStep(ReadByte(t.r), t, comment, found)

decodeComment(t, comment) == commentLoop(t, comment, 0)

ZeroProcInst == ProcInstTok(<<>>, <<>>)

\* The instruction buffer after the byte b is written to it.
instAppend(inst, foundEnd, b) == Append(IF foundEnd THEN Append(inst, "?") ELSE inst, b)

RECURSIVE procInstLoop(_, _, _, _, _)
\* The statements after the switch; foundSpace is its value after the switch.
procInstWrite(rb, t, inst, foundSpace, foundEnd, target) ==
    IF foundSpace
    THEN IF target = <<>>
         THEN result(WithR(t, rb), ZeroProcInst, ErrNoTarget)
         ELSE procInstLoop(WithR(t, rb), instAppend(inst, foundEnd, rb.b), foundSpace, FALSE, target)
    ELSE procInstLoop(WithR(t, rb), inst, foundSpace, foundEnd, Append(target, rb.b))

procInstStep(rb, t, inst, foundSpace, foundEnd, target) ==
    IF rb.err # NilErr
    THEN result(WithR(t, rb), ZeroProcInst, rb.err)
    ELSE IF rb.b = ">"
    THEN IF foundEnd
         THEN result(WithR(t, rb), ProcInstTok(target, inst), NilErr)
         ELSE procInstWrite(rb, t, inst, TRUE, foundEnd, target)
    ELSE IF rb.b = "?"
    THEN procInstLoop(WithR(t, rb), inst, TRUE, TRUE, target)
    ELSE IF isSpace(rb.b) /\ ~foundSpace
    THEN procInstLoop(WithR(t, rb), inst, TRUE, foundEnd, target)
    ELSE procInstWrite(rb, t, inst, foundSpace, foundEnd, target)

procInstLoop(t, inst, foundSpace, foundEnd, target) ==
    procInstStep(ReadByte(t.r), t, inst, foundSpace, foundEnd, target)

decodeProcInst(t, inst) == procInstLoop(t, inst, FALSE, FALSE, <<>>)

RECURSIVE decodeCharData(_, _)
charDataStep(rb, t, buf) ==
    IF rb.err # NilErr
    THEN result(WithR(t, rb), CharDataTok(<<>>), rb.err)
    ELSE IF rb.b = "<"
    THEN result([WithR(t, rb) EXCEPT !.foundStart = TRUE], CharDataTok(buf), NilErr)
    ELSE decodeCharData(WithR(t, rb), Append(buf, rb.b))

decodeCharData(t, buf) == charDataStep(ReadByte(t.r), t, buf)

(***************************************************************************)
(* Tokenizer.Token                                                         *)
(***************************************************************************)
\* errors.Is(err, io.EOF) after '<': end-of-input becomes errEarlyEOF.
earlyEOF(e) == IF e = EOF THEN errEarlyEOF ELSE e

\* The pending self-close name returned as an EndElement and left pending.
tokenSelfCloseKept(t) == result(t, EndElementTok(t.selfClose[1]), NilErr)

\* The pending self-close name is consumed and returned as an EndElement.
tokenSelfClose(t) ==
    result([t EXCEPT !.selfClose = <<>>], EndElementTok(t.selfClose[1]), NilErr)

\* rb is the byte read after "<!-".
tokenBangDash(rb, t) ==
    IF rb.err # NilErr
    THEN result(WithR(t, rb), NilTok, earlyEOF(rb.err))
    ELSE IF rb.b = "-"
    THEN decodeComment(WithR(t, rb), <<>>)
    ELSE result(WithR(t, rb), NilTok, ErrBadBang)

\* case '!': rb is the byte read after "<!".
tokenBang(rb, t) ==
    IF rb.err # NilErr
    THEN result(WithR(t, rb), NilTok, earlyEOF(rb.err))
    ELSE IF rb.b = "-"
    THEN tokenBangDash(ReadByte(rb.r), WithR(t, rb))
    ELSE decodeDirective(WithR(t, rb), <<rb.b>>)

\* case '?': the only sub-decoder whose error is returned with a nil Token.
tokenProcInst(res) == IF res.err # NilErr THEN result(res.t, NilTok, res.err) ELSE res

\* rb is the byte read after '<'.
tokenTag(rb, t) ==
    IF rb.err # NilErr
    THEN result(WithR(t, rb), NilTok, earlyEOF(rb.err))
    ELSE IF rb.b = "!" THEN tokenBang(ReadByte(rb.r), WithR(t, rb))
    ELSE IF rb.b = "?" THEN tokenProcInst(decodeProcInst(WithR(t, rb), <<>>))
    ELSE IF rb.b = "/" THEN decodeEndElement(WithR(t, rb))
    ELSE decodeStartElement(WithR(t, rb), rb.b)

\* rb is the first byte: read from the reader, or the '<' foundStart stands for.
tokenFirst(rb, t) ==
    IF rb.err # NilErr
    THEN result(WithR(t, rb), NilTok, rb.err)
    ELSE IF rb.b # "<"
    THEN decodeCharData(WithR(t, rb), <<rb.b>>)
    ELSE tokenTag(ReadByte(rb.r), WithR(t, rb))

\* The pending '<' left as it is.
takeFoundStartKept(t) == t

\* The pending '<' is taken as the first byte: t.foundStart = false.
takeFoundStart(t) == [t EXCEPT !.foundStart = FALSE]

Token(t) ==
    IF t.selfClose # <<>>
    THEN tokenSelfClose(t)
    ELSE IF t.foundStart
    THEN tokenFirst([b |-> "<", err |-> NilErr, r |-> t.r], takeFoundStart(t))
    ELSE tokenFirst(ReadByte(t.r), t)

(***************************************************************************)
(* Split and its three helpers.                                            *)
(***************************************************************************)
cdataStart == <<"<", "!", "[", "C", "D", "A", "T", "A", "[">>

cdataEnd == <<"]", "]", ">">>

\* A token returned by Split: a byte slice, or nil.
Slice(b) == [nil |-> FALSE, bytes |-> b]

NilSlice == [nil |-> TRUE, bytes |-> <<>>]

MinOf(S) == CHOOSE x \in S : \A y \in S : x <= y

HasPrefix(s, p) == Len(s) >= Len(p) /\ SubSeq(s, 1, Len(p)) = p

\* bytes.Index and bytes.IndexByte: the 0-based index of the first occurrence, or -1.
Occurrences(s, sep) == {i \in 0..(Len(s) - Len(sep)) : SubSeq(s, i + 1, i + Len(sep)) = sep}

Index(s, sep) == IF Occurrences(s, sep) = {} THEN -1 ELSE MinOf(Occurrences(s, sep))

IndexByte(s, c) == Index(s, <<c>>)

\* No boundary found, and the buffer flushed as a token without waiting for
\* the end of the input.
noMatchFlush(d, eof) == [advance |-> Len(d), token |-> Slice(d), err |-> NilErr]

\* No boundary found: all of data at the end of the input, else more is asked.
noMatch(d, eof) ==
    IF eof
    THEN [advance |-> Len(d), token |-> Slice(d), err |-> NilErr]
    ELSE [advance |-> 0, token |-> NilSlice, err |-> NilErr]

\* The token without its first byte: data[1:n].
prefixTokenTrimmed(d, n) == [advance |-> n, token |-> Slice(SubSeq(d, 2, n)), err |-> NilErr]

\* The token data[:n], with advance n.
prefixToken(d, n) == [advance |-> n, token |-> Slice(SubSeq(d, 1, n)), err |-> NilErr]

splitAt(d, eof, idx, width) ==
    IF idx = -1 THEN noMatch(d, eof) ELSE prefixToken(d, idx + width)

splitCData(d, eof) == splitAt(d, eof, Index(d, cdataEnd), Len(cdataEnd))

splitCharData(d, eof) == splitAt(d, eof, IndexByte(d, "<"), 0)

\* The loop of splitOther from the 0-based index i on; startQuote is NUL for 0.
RECURSIVE splitOtherLoop(_, _, _, _)
splitOtherLoop(d, eof, i, startQuote) ==
    IF i >= Len(d)
    THEN noMatch(d, eof)
    ELSE IF startQuote # NUL
    THEN splitOtherLoop(d, eof, i + 1, IF d[i + 1] = startQuote THEN NUL ELSE startQuote)
    ELSE IF d[i + 1] = "\"" \/ d[i + 1] = "'"
    THEN splitOtherLoop(d, eof, i + 1, d[i + 1])
    ELSE IF d[i + 1] = ">"
    THEN prefixToken(d, i + 1)
    ELSE splitOtherLoop(d, eof, i + 1, startQuote)

\* splitOther ending the token at the first '>', quoted or not.
splitOtherUnquoted(d, eof) == splitAt(d, eof, IndexByte(d, ">"), 1)

splitOther(d, eof) == splitOtherLoop(d, eof, 0, NUL)

\* data[0] of an empty slice is a run-time panic.
ErrPanic == <<"panic", "index out of range [0] with length 0">>

Split(d, eof) ==
    IF Len(d) = 0 /\ eof
    THEN [advance |-> 0, token |-> NilSlice, err |-> EOF]
    ELSE IF HasPrefix(d, cdataStart)
    THEN splitCData(d, eof)
    ELSE IF Len(d) = 0
    THEN [advance |-> 0, token |-> NilSlice, err |-> ErrPanic]
    ELSE IF d[1] # "<"
    THEN splitCharData(d, eof)
    ELSE splitOther(d, eof)

\* A scanner about to hand d to Split.
NewScan(d, eof) ==
    /\ data = d
    /\ atEOF = eof
    /\ advance = 0
    /\ token = NilSlice
    /\ serr = NilErr
    /\ sdata = <<"none">>
    /\ input = <<>>
    /\ rest = <<>>
    /\ toks = <<>>

(***************************************************************************)
(* The state machine of one Tokenizer: NewTokenizer, then Token() calls.   *)
(***************************************************************************)
T == [r |-> r, foundStart |-> foundStart, selfClose |-> selfClose,
      prefixes |-> prefixes, spaces |-> spaces]

Snapshot ==
    [r |-> r, foundStart |-> foundStart, selfClose |-> selfClose,
     prefixes |-> prefixes, spaces |-> spaces,
     tok |-> tok, err |-> err, consumed |-> consumed, called |-> called, open |-> open]

Returned(kind) == called /\ err = NilErr /\ tok.kind = kind

\* The elements started and not ended, read off the returned tokens.
openAfter(o, res) ==
    IF res.err = NilErr /\ res.tok.kind = "StartElement" THEN Append(o, res.tok)
    ELSE IF res.err = NilErr /\ res.tok.kind = "EndElement" /\ o # <<>> THEN Front(o)
    ELSE o

\* NewTokenizer(r) over a reader holding buf and ending with the error end.
NewTokenizer(buf, end) ==
    /\ r = [buf |-> buf, end |-> end]
    /\ foundStart = FALSE
    /\ selfClose = <<>>
    /\ prefixes = <<>>
    /\ spaces = <<>>
    /\ tok = NilTok
    /\ err = NilErr
    /\ consumed = <<>>
    /\ called = FALSE
    /\ open = <<>>
    /\ ntok = 0
    /\ failed = FALSE
    /\ pre = [r |-> [buf |-> buf, end |-> end], foundStart |-> FALSE, selfClose |-> <<>>,
              prefixes |-> <<>>, spaces |-> <<>>,
              tok |-> NilTok, err |-> NilErr, consumed |-> <<>>, called |-> FALSE,
              open |-> <<>>]

\* The step a Token() call that returned res makes.
Returns(res) ==
    /\ r' = res.t.r
    /\ foundStart' = res.t.foundStart
    /\ selfClose' = res.t.selfClose
    /\ prefixes' = res.t.prefixes
    /\ spaces' = res.t.spaces
    /\ tok' = res.tok
    /\ err' = res.err
    /\ consumed' = SubSeq(r.buf, 1, Len(r.buf) - Len(res.t.r.buf))
    /\ open' = openAfter(open, res)
    /\ ntok' = IF ~failed /\ res.err = NilErr THEN ntok + 1 ELSE ntok
    /\ failed' = (failed \/ res.err # NilErr)

TokenCall ==
    /\ Returns(Token(T))
    /\ called' = TRUE
    /\ pre' = Snapshot
    /\ UNCHANGED <<svars, scanvars>>

BSeq(S, n) == UNION {[1..k -> S] : k \in 0..n}

\* Every byte string of at most MaxLen bytes over the bytes that steer Token.
Alphabet == {"<", ">", "/", "!", "-", "?", "=", "\"", " ", "a"}

\* Inputs 5 and 8 of tokenizerTestCases, and a self-closing tag between
\* character data out of input 9.
TokenizerExamples ==
    {<<"<", "f", "o", "o", "/", ">", "<", "b", "a", "r", "\n", "\t", "/", ">">>,
     <<"<", "f", "o", "o", " ", "x", "m", "l", "n", "s", "=", "\"", "f", "o", "o", "\"", ">", "<", "b", "a", "r", " ", "a", "=", "\"", "b", "\"", "/", ">", "<", "/", "f", "o", "o", ">">>,
     <<"\n", "<", "i", "n", "n", "e", "r", "/", ">", "\n", "<", "/", "o", "u", "t", "e", "r", ">">>}

Init ==
    /\ \E buf \in BSeq(Alphabet, MaxLen) \cup TokenizerExamples, end \in {EOF, ErrReader} :
           NewTokenizer(buf, end)
    /\ NewScan(<<>>, FALSE)

Next == TokenCall

Spec == Init /\ [][Next]_vars

(***************************************************************************)
(* SpecNS: documents made of at most MaxTags tags, for the namespace       *)
(* bookkeeping. A tag is a start tag (a name, at most one attribute, ">"   *)
(* or "/>") or an end tag.                                                 *)
(***************************************************************************)
MaxTags == 3

ElemNames == {<<"a">>, <<"p", ":", "a">>}

AttrTexts == {<<>>, <<" ", "x", "m", "l", "n", "s", "=", "\"", "U", "\"">>, <<" ", "x", "m", "l", "n", "s", ":", "p", "=", "\"", "V", "\"">>, <<" ", "k", "=", "\"", "v", "\"">>, <<" ", "p", ":", "k", "=", "\"", "v", "\"">>}

URIs == {<<"U">>, <<"V">>}

StartTags ==
    {<<"<">> \o n \o a \o e : n \in ElemNames, a \in AttrTexts, e \in {<<">">>, <<"/", ">">>}}

EndTags == {<<"<", "/">> \o n \o <<">">> : n \in ElemNames}

RECURSIVE Flatten(_)
Flatten(ss) == IF ss = <<>> THEN <<>> ELSE Head(ss) \o Flatten(Tail(ss))

\* Every document of at most n tags.
Documents(n) == {Flatten(ts) : ts \in BSeq(StartTags \cup EndTags, n)}

InitNS ==
    /\ \E buf \in Documents(MaxTags) : NewTokenizer(buf, EOF)
    /\ NewScan(<<>>, FALSE)

SpecNS == InitNS /\ [][Next]_vars

(***************************************************************************)
(* SpecCData: documents holding one CDATA section, alone or after one      *)
(* byte of character data.                                                 *)
(***************************************************************************)
MaxCData == 3

CDataBytes == {" ", ".", ">", "<"}

CDataExample == <<" ", ".", ".", ">", ".", " ">>

CDataContents == {c \in BSeq(CDataBytes, MaxCData) \cup {CDataExample} : Index(c, cdataEnd) = -1}

CDataDocuments ==
    {lead \o cdataStart \o c \o cdataEnd : lead \in {<<>>, <<"a">>}, c \in CDataContents}

InitCData ==
    /\ \E buf \in CDataDocuments : NewTokenizer(buf, EOF)
    /\ NewScan(<<>>, FALSE)

SpecCData == InitCData /\ [][Next]_vars

(***************************************************************************)
(* SpecSplit: a scanner that hands Split the unconsumed input and drops    *)
(* the bytes Split advances over, until Split returns no token.            *)
(***************************************************************************)
MaxSplitLen == 5

SplitAlphabet == {"<", ">", "\"", "'", "a", "]"}

\* Inputs of splitTestCases.
SplitExamples == {<<"t", "e", "s", "t", "<", "a", "/", ">">>, <<"<", "a", " ", "t", "e", "s", "t", "=", "\"", ">", "\"", ">", "<", "/", "a", ">">>, <<"<", "a", " ", "t", "e", "s", "t", "=", "'", ">", "'", ">", "<", "/", "a", ">">>, <<"<", "!", "[", "C", "D", "A", "T", "A", "[", " ", ".", ".", ">", ".", " ", "]", "]", ">">>}

\* Every input of at most n bytes, bare or after <![CDATA[, and the examples.
SplitInputs(n) ==
    {lead \o d : lead \in {<<>>, cdataStart}, d \in BSeq(SplitAlphabet, n)}
    \cup SplitExamples

SplitCalled == sdata # <<"none">>

\* The step a Split call that returned res makes.
SplitReturns(res) ==
    /\ advance' = res.advance
    /\ token' = res.token
    /\ serr' = res.err
    /\ data' = SubSeq(data, res.advance + 1, Len(data))

SplitCall ==
    /\ serr = NilErr
    /\ SplitCalled => advance > 0
    /\ SplitReturns(Split(data, atEOF))
    /\ sdata' = data
    /\ UNCHANGED <<atEOF, tvars, scanvars>>

InitSplit ==
    /\ NewTokenizer(<<>>, EOF)
    /\ \E d \in SplitInputs(MaxSplitLen), eof \in BOOLEAN : NewScan(d, eof)

NextSplit == SplitCall

SpecSplit == InitSplit /\ [][NextSplit]_vars

(***************************************************************************)
(* SpecScan: a bufio.Scanner with Split as its split function, reading the *)
(* input in chunks of any size: it calls Split on the buffered bytes while *)
(* Split returns tokens and reads more when Split returns none.            *)
(***************************************************************************)
MaxScanLen == 4

ScanAlphabet == {"<", ">", "\"", "a", "]"}

ScanInputs(n) ==
    {lead \o d : lead \in {<<>>, cdataStart}, d \in BSeq(ScanAlphabet, n)}
    \cup SplitExamples

\* bufio.NewScanner(reader over in) with scan.Split(Split).
NewScanner(in) ==
    /\ data = <<>>
    /\ atEOF = FALSE
    /\ advance = 0
    /\ token = NilSlice
    /\ serr = NilErr
    /\ sdata = <<"none">>
    /\ input = in
    /\ rest = in
    /\ toks = <<>>

\* The last call of Split on the buffered bytes returned no token.
NeedsMore == SplitCalled /\ token.nil

\* The scanner calls Split when it holds bytes or has seen the end of the
\* input, and keeps the token.
ScanSplit ==
    /\ serr = NilErr
    /\ data # <<>> \/ atEOF
    /\ ~NeedsMore
    /\ SplitReturns(Split(data, atEOF))
    /\ toks' = IF Split(data, atEOF).token.nil THEN toks
               ELSE Append(toks, Split(data, atEOF).token.bytes)
    /\ sdata' = data
    /\ UNCHANGED <<atEOF, input, rest, tvars>>

\* The scanner reads: k more bytes, and the end of the input with the last
\* bytes or after them.
ScanRead ==
    /\ serr = NilErr
    /\ ~atEOF
    /\ data = <<>> \/ NeedsMore
    /\ \E k \in 0..Len(rest), end \in BOOLEAN :
          /\ k = 0 => end
          /\ end => k = Len(rest)
          /\ data' = data \o SubSeq(rest, 1, k)
          /\ rest' = SubSeq(rest, k + 1, Len(rest))
          /\ atEOF' = end
    /\ sdata' = <<"none">>
    /\ UNCHANGED <<advance, token, serr, input, toks, tvars>>

InitScan ==
    /\ NewTokenizer(<<>>, EOF)
    /\ \E in \in ScanInputs(MaxScanLen) : NewScanner(in)

NextScan == ScanSplit \/ ScanRead

SpecScan == InitScan /\ [][NextScan]_vars

(***************************************************************************)
(* SpecBody: a Tokenizer over one comment <!--B-->, one processing         *)
(* instruction <?T I?> or one directive <!D>, with or without text after   *)
(* it, for every body of at most MaxBody bytes.                            *)
(***************************************************************************)
MaxBody == 3

commentStart == <<"<", "!", "-", "-">>

commentEnd == <<"-", "-", ">">>

procInstStart == <<"<", "?">>

procInstEnd == <<"?", ">">>

CommentBodies == {b \in BSeq({"-", ">", "a", " "}, MaxBody) : Index(b, commentEnd) = -1}

InstBodies == {b \in BSeq({"?", ">", "a", " "}, MaxBody) : Index(b, procInstEnd) = -1}

DirectiveBodies == {b \in BSeq({"-", "a", " ", "["}, MaxBody) : b = <<>> \/ b[1] # "-"}

Targets == {<<"a">>, <<"a", "b">>}

BodyDocuments ==
    {d \o tail : tail \in {<<>>, <<"a">>},
                 d \in {commentStart \o b \o commentEnd : b \in CommentBodies}
                       \cup {procInstStart \o t \o <<" ">> \o b \o procInstEnd :
                                 t \in Targets, b \in InstBodies}
                       \cup {<<"<", "!">> \o b \o <<">">> : b \in DirectiveBodies}}

InitBody ==
    /\ \E buf \in BodyDocuments, end \in {EOF, ErrReader} : NewTokenizer(buf, end)
    /\ NewScan(<<>>, FALSE)

SpecBody == InitBody /\ [][Next]_vars

(***************************************************************************)
(* SpecName: one call of decodeName(t, b, attr) on a Tokenizer whose       *)
(* namespace stacks hold up to MaxDepth entries, over every name text of   *)
(* at most MaxNameLen bytes.                                               *)
(***************************************************************************)
MaxDepth == 2

MaxNameLen == 3

NameAlphabet == {"p", ":", "a", ">"}

\* The maps a start tag can leave on the prefix stack: no declaration,
\* xmlns:p="V", xmlns:p="".
PrefixMaps == {EmptyMap, MapPut(EmptyMap, <<"p">>, <<"V">>), MapPut(EmptyMap, <<"p">>, <<>>)}

DefaultSpaces == {<<>>, <<"U">>}

\* The first byte handed to decodeName: none (end tags), or the byte the
\* caller has read.
FirstBytes == {NUL, "p"}

\* A Tokenizer between two reads, with stacks pfx and sp.
TokenizerAt(buf, end, pfx, sp) ==
    /\ r = [buf |-> buf, end |-> end]
    /\ foundStart = FALSE
    /\ selfClose = <<>>
    /\ prefixes = pfx
    /\ spaces = sp
    /\ tok = NilTok
    /\ err = NilErr
    /\ consumed = <<>>
    /\ called = FALSE
    /\ open = <<>>
    /\ ntok = 0
    /\ failed = FALSE
    /\ pre = [r |-> [buf |-> buf, end |-> end], foundStart |-> FALSE, selfClose |-> <<>>,
              prefixes |-> pfx, spaces |-> sp,
              tok |-> NilTok, err |-> NilErr, consumed |-> <<>>, called |-> FALSE,
              open |-> <<>>]

\* What decodeName returned, with the arguments it was called with.
NameCall(res, b, attr) ==
    [kind |-> "Name", Name |-> res.name, sep |-> res.sep, def |-> res.def, b |-> b, attr |-> attr]

NameReturns(res, b, attr) ==
    /\ r' = res.t.r
    /\ tok' = NameCall(res, b, attr)
    /\ err' = res.err
    /\ consumed' = SubSeq(r.buf, 1, Len(r.buf) - Len(res.t.r.buf))
    /\ UNCHANGED <<foundStart, selfClose, prefixes, spaces, open, ntok, failed>>

DecodeNameCall ==
    /\ ~called
    /\ \E b \in FirstBytes, attr \in BOOLEAN : NameReturns(decodeName(T, b, attr), b, attr)
    /\ called' = TRUE
    /\ pre' = Snapshot
    /\ UNCHANGED <<svars, scanvars>>

InitName ==
    /\ \E buf \in BSeq(NameAlphabet, MaxNameLen), n \in 0..MaxDepth :
          \E pfx \in [1..n -> PrefixMaps], sp \in [1..n -> DefaultSpaces] :
             TokenizerAt(buf, EOF, pfx, sp)
    /\ NewScan(<<>>, FALSE)

NextName == DecodeNameCall

SpecName == InitName /\ [][NextName]_vars

(***************************************************************************)
(* SpecTag: a Tokenizer inside up to MaxDepth open elements, about to read *)
(* a start tag with up to MaxAttrs namespace declarations.                 *)
(***************************************************************************)
MaxAttrs == 2

TagNames == {<<"a">>, <<"p", ":", "a">>, <<"q", ":", "a">>}

\* xmlns="U", xmlns:q="r", xmlns:r="W", xmlns:V="W", xmlns:p="X".
TagAttrs ==
    {<<" ", "x", "m", "l", "n", "s", "=", "\"", "U", "\"">>,
     <<" ", "x", "m", "l", "n", "s", ":", "q", "=", "\"", "r", "\"">>,
     <<" ", "x", "m", "l", "n", "s", ":", "r", "=", "\"", "W", "\"">>,
     <<" ", "x", "m", "l", "n", "s", ":", "V", "=", "\"", "W", "\"">>,
     <<" ", "x", "m", "l", "n", "s", ":", "p", "=", "\"", "X", "\"">>}

\* Every start tag with at most n of the declarations.
StartTagTexts(n) ==
    {<<"<">> \o name \o Flatten(as) \o <<">">> : name \in TagNames, as \in BSeq(TagAttrs, n)}

InitTag ==
    /\ \E buf \in StartTagTexts(MaxAttrs), n \in 0..MaxDepth :
          \E pfx \in [1..n -> PrefixMaps], sp \in [1..n -> DefaultSpaces] :
             TokenizerAt(buf, EOF, pfx, sp)
    /\ NewScan(<<>>, FALSE)

SpecTag == InitTag /\ [][Next]_vars

(***************************************************************************)
(* SpecProgress: a caller that keeps calling Token() on a Tokenizer over   *)
(* an input of at most MaxProgLen bytes, the input kept for reference.     *)
(***************************************************************************)
MaxProgLen == 3

\* No scanner at work; in is the input of the Tokenizer's reader.
ReaderOver(in) ==
    /\ data = <<>>
    /\ atEOF = FALSE
    /\ advance = 0
    /\ token = NilSlice
    /\ serr = NilErr
    /\ sdata = <<"none">>
    /\ input = in
    /\ rest = <<>>
    /\ toks = <<>>

InitProgress ==
    \E buf \in BSeq(Alphabet, MaxProgLen) \cup TokenizerExamples, end \in {EOF, ErrReader} :
        NewTokenizer(buf, end) /\ ReaderOver(buf)

\* A call made before any error: it returns a token, which is counted, or
\* the first error.  Token() can always be called and every step of Next
\* from a state without an error is such a call, so fairness of CallerStep
\* says that the caller keeps calling until the first error.
CallerStep ==
    /\ ~failed
    /\ \/ ntok' = ntok + 1 /\ failed' = FALSE
       \/ ntok' = ntok /\ failed' = TRUE

SpecProgress == InitProgress /\ [][Next]_vars /\ WF_<<ntok, failed>>(CallerStep)

(***************************************************************************)
(* What the claims speak of, read off the calls' arguments and results.    *)
(***************************************************************************)
EndsWith(s, suffix) ==
    Len(s) >= Len(suffix) /\ SubSeq(s, Len(s) - Len(suffix) + 1, Len(s)) = suffix

Range(s) == {s[i] : i \in 1..Len(s)}

MaxOf(S) == CHOOSE x \in S : \A y \in S : x >= y

\* The call whose results the snapshot s holds returned the StartElement of a
\* self-closing tag: the bytes it read end with "/>".
SelfClosingStart(s) ==
    s.called /\ s.err = NilErr /\ s.tok.kind = "StartElement" /\ EndsWith(s.consumed, <<"/", ">">>)

\* The input as the last call saw it: with the '<' that foundStart stood for.
SeenInput == IF pre.foundStart THEN <<"<">> \o pre.r.buf ELSE pre.r.buf

SeenConsumed == IF pre.foundStart THEN <<"<">> \o consumed ELSE consumed

RECURSIVE NameBytes(_)
NameBytes(bs) ==
    IF bs = <<>> \/ ~isNameByte(Head(bs)) THEN <<>> ELSE <<Head(bs)>> \o NameBytes(Tail(bs))

\* The name as written in the start tag the last call read, and its prefix
\* (empty when the name has no colon).
WrittenName == NameBytes(Tail(SeenConsumed))

WrittenPrefix ==
    IF IndexByte(WrittenName, ":") = -1
    THEN <<>>
    ELSE SubSeq(WrittenName, 1, IndexByte(WrittenName, ":"))

\* The attributes of the start element e that declare the prefix p, and the
\* default namespace.
PrefixDecls(e, p) == {i \in 1..Len(e.Attr) : e.Attr[i].Name = MkName(xmlns, p)}

DefaultDecls(e) == {i \in 1..Len(e.Attr) : e.Attr[i].Name = MkName(<<>>, xmlns)}

\* The open ancestors (by the returned token stream) of the element the last
\* call started that declare p, and the default namespace.
PrefixAncestors(p) == {i \in 1..Len(pre.open) : PrefixDecls(pre.open[i], p) # {}}

DefaultAncestors == {i \in 1..Len(pre.open) : DefaultDecls(pre.open[i]) # {}}

\* The URIs the documents of SpecNS declare for a prefix.
PrefixURIs == {<<"V">>}

(***************************************************************************)
(* Claims checked under Spec.                                              *)
(***************************************************************************)
\* C1: a call that returns a StartElement leaves both namespace stacks one
\* entry longer, and a call that returns an EndElement, the one from a pending
\* self-close name included, leaves both one entry shorter (stated for calls
\* that follow no error and are entered with an entry on the stacks: there is
\* nothing to pop otherwise).
C1_StackDiscipline ==
    pre.err = NilErr =>
        /\ Returned("StartElement") =>
               /\ Len(prefixes) = Len(pre.prefixes) + 1
               /\ Len(spaces) = Len(pre.spaces) + 1
        /\ (Returned("EndElement") /\ Len(pre.prefixes) > 0 /\ Len(pre.spaces) > 0) =>
               /\ Len(prefixes) = Len(pre.prefixes) - 1
               /\ Len(spaces) = Len(pre.spaces) - 1

\* C4: the call after one that returned the StartElement of a self-closing
\* tag returns the EndElement of the same Name, reads no byte from the reader
\* and leaves no self-close name pending.
C4_SelfCloseLaw ==
    SelfClosingStart(pre) =>
        /\ tok = EndElementTok(pre.tok.Name)
        /\ err = NilErr
        /\ consumed = <<>>
        /\ r = pre.r
        /\ selfClose = <<>>

C4_Witness ==
    /\ SelfClosingStart(pre)
    /\ Returned("EndElement")
    /\ tok.Name.Local # <<>>
    /\ pre.tok.Attr # <<>>
    /\ r.buf # <<>>

\* C5: once a call has returned an error, the next call (hence every later
\* call) returns an error too, never a token.
C5_ErrorsTerminal == (pre.called /\ pre.err # NilErr) => err # NilErr

\* C6: every call returns a token with a nil error, or a nil token with an
\* error.
C6_TokenXorError ==
    called => \/ (err = NilErr /\ tok.kind # "nil")
              \/ (err # NilErr /\ tok.kind = "nil")

\* C7: plain end-of-input is returned only by a call that found the reader
\* exhausted at its very start; end-of-input met after the call has consumed
\* something is the syntax error "early EOF".
C7_EarlyEOF == (called /\ err = EOF) => (consumed = <<>> /\ ~pre.foundStart)

\* C8: as the reference decoder does, the first call on an input that is
\* character data to its end returns that character data, with a nil error:
\* character data that ends the input is delivered before end-of-input is
\* reported.
C8_CharDataBeforeEOF ==
    (called /\ ~pre.called /\ pre.r.end = EOF /\ pre.r.buf # <<>> /\ "<" \notin Range(pre.r.buf))
        => (tok = CharDataTok(pre.r.buf) /\ err = NilErr)

(***************************************************************************)
(* Claims checked under SpecNS.                                            *)
(***************************************************************************)
\* C2: a start element whose name is written with a prefix p resolves to the
\* URI of the nearest declaration of p on itself or on an open ancestor, and
\* to no declared prefix URI when p is declared on none of them (on an
\* element that has ended, by an end tag or by "/>", only).
C2_PrefixScoping ==
    (Returned("StartElement") /\ WrittenPrefix # <<>>) =>
        IF PrefixDecls(tok, WrittenPrefix) # {}
        THEN tok.Name.Space = tok.Attr[MaxOf(PrefixDecls(tok, WrittenPrefix))].Value
        ELSE IF PrefixAncestors(WrittenPrefix) # {}
        THEN LET e == pre.open[MaxOf(PrefixAncestors(WrittenPrefix))]
             IN  tok.Name.Space = e.Attr[MaxOf(PrefixDecls(e, WrittenPrefix))].Value
        ELSE tok.Name.Space \notin PrefixURIs

\* C3: a start element whose name is written without a prefix has the Space
\* of its own xmlns declaration, else of the nearest open ancestor that
\* declares one, else the empty Space.
C3_DefaultNamespace ==
    (Returned("StartElement") /\ WrittenPrefix = <<>>) =>
        IF DefaultDecls(tok) # {}
        THEN tok.Name.Space = tok.Attr[MaxOf(DefaultDecls(tok))].Value
        ELSE IF DefaultAncestors # {}
        THEN LET e == pre.open[MaxOf(DefaultAncestors)]
             IN  tok.Name.Space = e.Attr[MaxOf(DefaultDecls(e))].Value
        ELSE tok.Name.Space = <<>>

(***************************************************************************)
(* Claims checked under SpecCData.                                         *)
(***************************************************************************)
\* The last call began at a CDATA section that is closed further on.
AtCData ==
    /\ called
    /\ pre.selfClose = <<>>
    /\ HasPrefix(SeenInput, cdataStart)
    /\ Index(SeenInput, cdataEnd) # -1

\* C9: a call that begins at a section <![CDATA[ C ]]> returns C as a
\* CharData, '<' and '>' inside C left as they are.
C9_CDataAsCharData ==
    AtCData =>
        /\ tok = CharDataTok(SubSeq(SeenInput, Len(cdataStart) + 1, Index(SeenInput, cdataEnd)))
        /\ err = NilErr

(***************************************************************************)
(* Claims checked under SpecSplit.                                         *)
(***************************************************************************)
IsQuote(b) == b = "\"" \/ b = "'"

\* The quoted regions of d from position from on, as pairs <<o, c>> of the
\* positions of the opening quote and of the next occurrence of the same
\* quote byte (Len(d) + 1 when there is none).
RECURSIVE QuotedRegions(_, _)
QuotedRegions(d, from) ==
    LET opens == {i \in from..Len(d) : IsQuote(d[i])}
    IN  IF opens = {} THEN {}
        ELSE LET o == MinOf(opens)
                 closes == {i \in (o + 1)..Len(d) : d[i] = d[o]}
             IN  IF closes = {} THEN {<<o, Len(d) + 1>>}
                 ELSE {<<o, MinOf(closes)>>} \cup QuotedRegions(d, MinOf(closes) + 1)

\* The positions of the '>' bytes of d that lie outside every quoted region.
UnquotedGT(d) ==
    {i \in 1..Len(d) : d[i] = ">" /\ \A q \in QuotedRegions(d, 1) : ~(q[1] < i /\ i < q[2])}

SplitOtherCall == SplitCalled /\ sdata # <<>> /\ Head(sdata) = "<" /\ ~HasPrefix(sdata, cdataStart)

\* C10: on data that starts with '<' and not with <![CDATA[, Split returns
\* the prefix of data that ends with the first '>' outside a quoted region.
C10_SplitOtherQuotes ==
    (SplitOtherCall /\ UnquotedGT(sdata) # {}) =>
        /\ token = Slice(SubSeq(sdata, 1, MinOf(UnquotedGT(sdata))))
        /\ advance = MinOf(UnquotedGT(sdata))
        /\ serr = NilErr

C10_Witness ==
    /\ SplitOtherCall
    /\ UnquotedGT(sdata) # {}
    /\ \E i \in 1..Len(sdata) : sdata[i] = ">" /\ i < MinOf(UnquotedGT(sdata))
    /\ ~token.nil
    /\ Last(token.bytes) = ">"

(***************************************************************************)
(* Claims checked under SpecScan.                                          *)
(***************************************************************************)
RECURSIVE Concat(_)
Concat(ss) == IF ss = <<>> THEN <<>> ELSE Head(ss) \o Concat(Tail(ss))

\* C11: the tokens Split returns to a scanner, concatenated in order, are
\* the input: at every moment they are the input up to the bytes still
\* buffered or unread, and all of it once Split has reported end-of-input;
\* and each token is data[0..advance], with advance its length, at least 1.
C11_SplitterCover ==
    /\ Concat(toks) \o data \o rest = input
    /\ serr = EOF => Concat(toks) = input
    /\ (SplitCalled /\ ~token.nil) =>
           /\ token.bytes = SubSeq(sdata, 1, advance)
           /\ advance = Len(token.bytes)
           /\ advance >= 1

C11_Witness ==
    /\ serr = EOF
    /\ Len(toks) >= 2
    /\ Concat(toks) = input
    /\ \E i \in 1..Len(toks) : HasPrefix(toks[i], cdataStart)

(***************************************************************************)
(* Claims checked under Spec and SpecBody.                                 *)
(***************************************************************************)
\* C12: between Token() calls, foundStart and selfClose are never both set.
C12_FlagsExclusive == ~(foundStart /\ selfClose # <<>>)

C12_Witness ==
    /\ Returned("StartElement")
    /\ pre.foundStart
    /\ selfClose # <<>>
    /\ ~foundStart

\* The first call on a Tokenizer has returned.
FirstCall == called /\ ~pre.called

\* The input from its (n+1)th byte on.
After(in, n) == SubSeq(in, n + 1, Len(in))

\* The bytes of in before the first occurrence of sep.
Before(in, sep) == SubSeq(in, 1, Index(in, sep))

IsComment(in) == HasPrefix(in, commentStart) /\ Index(After(in, Len(commentStart)), commentEnd) # -1

\* C13: for an input <!--B-->, B without -->, the first call returns the
\* Comment B: the bytes between <!-- and the first following -->, runs of
\* '-' in B and at its end included.
C13_CommentContent ==
    (FirstCall /\ IsComment(pre.r.buf)) =>
        /\ tok = CommentTok(Before(After(pre.r.buf, Len(commentStart)), commentEnd))
        /\ err = NilErr

\* C14: no ProcInst with an empty Target is returned: on an input that holds
\* a whole <? ... ?>, a target phase that ends (whitespace, '?' or '>') with
\* no target byte is the syntax error "expected target name after <?".
C14_NoEmptyTarget ==
    /\ Returned("ProcInst") => tok.Target # <<>>
    /\ (FirstCall /\ HasPrefix(pre.r.buf, procInstStart)
            /\ Index(After(pre.r.buf, Len(procInstStart)), procInstEnd) # -1
            /\ (isSpace(pre.r.buf[3]) \/ pre.r.buf[3] \in {"?", ">"}))
          => (tok = NilTok /\ err = ErrNoTarget)

\* The target of an input <?T S I?>: the bytes after <? up to the first
\* whitespace, '?' or '>'.
RECURSIVE TargetBytes(_)
TargetBytes(bs) ==
    IF bs = <<>> \/ isSpace(Head(bs)) \/ Head(bs) \in {"?", ">"} THEN <<>>
    ELSE <<Head(bs)>> \o TargetBytes(Tail(bs))

PITarget(in) == TargetBytes(After(in, Len(procInstStart)))

\* What follows the target and the one whitespace byte after it.
PIRest(in) == After(in, Len(procInstStart) + Len(PITarget(in)) + 1)

IsProcInst(in) ==
    /\ HasPrefix(in, procInstStart)
    /\ PITarget(in) # <<>>
    /\ Len(in) > Len(procInstStart) + Len(PITarget(in))
    /\ isSpace(in[Len(procInstStart) + Len(PITarget(in)) + 1])
    /\ Index(PIRest(in), procInstEnd) # -1

\* C15: for an input <?T S I?>, I without ?>, the first call returns the
\* ProcInst with Target T and Inst I, every '?' of I kept.
C15_ProcInstContent ==
    (FirstCall /\ IsProcInst(pre.r.buf)) =>
        /\ tok = ProcInstTok(PITarget(pre.r.buf), Before(PIRest(pre.r.buf), procInstEnd))
        /\ err = NilErr

IsDirective(in) ==
    /\ HasPrefix(in, <<"<", "!">>)
    /\ Len(in) > 2
    /\ in[3] # "-"
    /\ ">" \in Range(After(in, 2))

\* C16: for an input <!D> where D does not begin with '-', the first call
\* returns the Directive of the bytes between <! and the first following
\* '>'; no returned Directive holds a '>'.
C16_DirectiveContent ==
    /\ (FirstCall /\ IsDirective(pre.r.buf)) =>
           /\ tok = DirectiveTok(Before(After(pre.r.buf, 2), <<">">>))
           /\ err = NilErr
    /\ Returned("Directive") => ">" \notin Range(tok.Data)

(***************************************************************************)
(* Claims checked under SpecName.                                          *)
(***************************************************************************)
\* The name as decodeName saw it: the byte b it was handed, then the name
\* bytes it read.
NameText == (IF tok.b = NUL THEN <<>> ELSE <<tok.b>>) \o NameBytes(pre.r.buf)

\* The prefix as written: what stands before the first colon.
NamePrefix == Before(NameText, <<":">>)

\* decodeName returned a name written prefix:local whose prefix no entry of
\* the prefix stack maps to a non-empty URI.
UnresolvedPrefix ==
    /\ called
    /\ tok.kind = "Name"
    /\ err = NilErr
    /\ ":" \in Range(NameText)
    /\ \A i \in 1..Len(pre.prefixes) : MapGet(pre.prefixes[i], NamePrefix) = <<>>

EntrySpaces ==
    {defaultSpace(pre.spaces, Len(pre.spaces)), WrittenPrefix}
    \cup {MapGet(pre.prefixes[i], WrittenPrefix) : i \in 1..Len(pre.prefixes)}

\* The values of the element's own xmlns="..." attributes.
OwnDefaults == {tok.Attr[i].Value : i \in DefaultDecls(tok)}

\* The values of the element's own declarations of the prefix its name was
\* written with, made before any xmlns="..." of the element.
OwnPrefixRewrites ==
    IF WrittenPrefix = <<>> THEN {}
    ELSE {tok.Attr[i].Value : i \in {j \in PrefixDecls(tok, WrittenPrefix) :
                                         \A k \in DefaultDecls(tok) : j < k}}

\* C18: an attribute xmlns:q="V" replaces the element's Space with V only
\* when no default namespace was declared on the element and the element's
\* name was written with the prefix q: the Space of a returned StartElement
\* is the one it had at entry, the value of an xmlns="..." of its own, or the
\* value of its own declaration of its written prefix, never the value of a
\* declaration of another prefix.
C18_RewriteWrittenPrefixOnly ==
    Returned("StartElement") =>
        tok.Name.Space \in EntrySpaces \cup OwnDefaults \cup OwnPrefixRewrites

(***************************************************************************)
(* Totality of Split, checked under SpecSplit.                             *)
(***************************************************************************)
\* Split found no token boundary in the data of its last call: no ]]>
\* after <![CDATA[, no '<' in character data, no unquoted '>' in a tag.
NoBoundary ==
    IF HasPrefix(sdata, cdataStart) THEN Index(sdata, cdataEnd) = -1
    ELSE IF sdata # <<>> /\ Head(sdata) # "<" THEN "<" \notin Range(sdata)
    ELSE UnquotedGT(sdata) = {}

\* C19: Split returns normally for every data and atEOF, empty data with
\* atEOF false included; its only error is io.EOF, returned exactly when
\* data is empty and atEOF is true; with no token boundary it returns the
\* whole remainder if atEOF is true and (0, nil, nil) if atEOF is false.
C19_SplitTotal ==
    SplitCalled =>
        /\ serr \in {NilErr, EOF}
        /\ serr = EOF <=> (sdata = <<>> /\ atEOF)
        /\ (NoBoundary /\ atEOF /\ sdata # <<>>) =>
               (advance = Len(sdata) /\ token = Slice(sdata) /\ serr = NilErr)
        /\ (NoBoundary /\ ~atEOF) =>
               (advance = 0 /\ token = NilSlice /\ serr = NilErr)

(***************************************************************************)
(* Claims checked under SpecProgress.                                      *)
(***************************************************************************)
\* Every call reads no more than the reader holds, and reads a byte, clears
\* a pending self-close name or returns an error; no more than
\* (input length + 1) calls return a token before the first error.
ProgressInv ==
    /\ called =>
           /\ Len(consumed) <= Len(pre.r.buf)
           /\ \/ consumed # <<>>
              \/ pre.selfClose # <<>> /\ selfClose = <<>>
              \/ err # NilErr
    /\ ntok <= Len(input) + 1

\* C20: every Token() call on a finite input reads finitely many bytes and
\* makes progress (ProgressInv), and a caller that keeps calling reaches the
\* first error, after at most (input length + 1) token-returning calls.
C20_Progress == []ProgressInv /\ <>failed

C20_Witness ==
    /\ failed
    /\ ntok >= 4
    /\ err = EOF
    /\ pre.tok.kind = "EndElement"
    /\ pre.consumed = <<>>

(***************************************************************************)
(* Chunking independence of Split, checked under SpecScan.                 *)
(***************************************************************************)
\* The tokens of d delivered in one piece together with the end of the input.
RECURSIVE SplitAll(_)
SplitAll(d) ==
    IF d = <<>>
    THEN <<>>
    ELSE LET res == Split(d, TRUE)
         IN  IF res.err # NilErr \/ res.token.nil \/ res.advance < 1
             THEN <<>>
             ELSE <<res.token.bytes>> \o SplitAll(SubSeq(d, res.advance + 1, Len(d)))

\* Split(sdata, false) has just returned a token.
TokenBeforeEnd == SplitCalled /\ ~token.nil /\ ~atEOF /\ sdata # <<>>

\* Every extension of the buffer by bytes still to be delivered, with either
\* value of atEOF, gets the advance and the token the last call returned.
ExtensionStable ==
    \A k \in 0..Len(rest), eof \in BOOLEAN :
        /\ Split(sdata \o SubSeq(rest, 1, k), eof).advance = advance
        /\ Split(sdata \o SubSeq(rest, 1, k), eof).token = token
        /\ Split(sdata \o SubSeq(rest, 1, k), eof).err = NilErr

\* C21: Split framing does not depend on the chunking. When Split(data, false)
\* returns a token for a non-empty buffer, Split returns the same advance and
\* token for every extension of the buffer and either atEOF; and the tokens a
\* scanner has obtained, however the input came in pieces, are the first
\* tokens of the one-piece delivery, all of them once the scan has ended.
C21_ChunkIndependent ==
    /\ TokenBeforeEnd => ExtensionStable
    /\ Len(toks) <= Len(SplitAll(input))
    /\ toks = SubSeq(SplitAll(input), 1, Len(toks))
    /\ serr = EOF => toks = SplitAll(input)

\* The input comes in pieces: Split has returned the token <> from a buffer
\* that ends inside the input, with a token before it and bytes undelivered.
C21_Witness ==
    /\ TokenBeforeEnd
    /\ rest # <<>>
    /\ Len(toks) >= 2
    /\ toks[Len(toks)] = <<"<", ">">>
    /\ Len(sdata) = advance

====
